---- MODULE Spec2Model ----
(***************************************************************************)
(* State-machine model of the sketch pad component                         *)
(* (src/src/lib/components/sketch.svelte) and of the posts page            *)
(* (src/src/routes/+page.svelte, with its page-load function).             *)
(*                                                                         *)
(* A component instance ("session") lives in one browser tab; all          *)
(* sessions share the remote 'sketches' collection.  Every handler of the  *)
(* component is one action; an async function is one action per           *)
(* synchronous stretch (up to its await, and from the await on).           *)
(***************************************************************************)
EXTENDS Integers, Sequences, FiniteSets, TLC

(***************************************************************************)
(* Bounds of the model.                                                    *)
(***************************************************************************)
\* number of records the input events append to the action logs
MaxRecorded == 3
\* number of addDoc calls made on the 'sketches' collection
MaxSaves == 1
\* the same two bounds for the runs with several saves (SpecSaves), with two
\* sessions (SpecTwo) and with directly called handlers (SpecCalls)
SavesMaxRecorded == 1
SavesMaxSaves == 2
TwoMaxRecorded == 1
TwoMaxSaves == 2
CallsMaxRecorded == 2
CallsMaxSaves == 1
\* pointer positions offered: 0..MaxX right of and 0..MaxY below the canvas origin
MaxX == 1
MaxY == 0

Sessions == {"A", "B"}

Null == "null"

(***************************************************************************)
(* The 2D drawing context (CanvasRenderingContext2D) as far as the code    *)
(* uses it: the current path (a sequence of subpaths) and the segments     *)
(* that stroke() has put on the raster, in the order they were drawn.      *)
(***************************************************************************)
NewContext == [path |-> <<>>, raster |-> <<>>, strokeStyle |-> "#000000", lineWidth |-> 1]

Point(x, y) == <<x, y>>

ctxBeginPath(g) == [g EXCEPT !.path = <<>>]

ctxClearRect(g) == [g EXCEPT !.raster = <<>>]

ctxMoveTo(g, x, y) ==
    [g EXCEPT !.path = Append(@, [pts |-> <<Point(x, y)>>, closed |-> FALSE])]

\* lineTo on an empty path only ensures there is a subpath at (x, y)
ctxLineTo(g, x, y) ==
    IF g.path = <<>>
    THEN [g EXCEPT !.path = <<[pts |-> <<Point(x, y)>>, closed |-> FALSE]>>]
    ELSE [g EXCEPT !.path[Len(g.path)].pts = Append(@, Point(x, y))]

\* closePath marks the last subpath closed and starts a new one at its first point
ctxClosePath(g) ==
    IF g.path = <<>>
    THEN g
    ELSE LET last == g.path[Len(g.path)]
         IN [g EXCEPT !.path = Append([@ EXCEPT ![Len(g.path)].closed = TRUE],
                                      [pts |-> <<last.pts[1]>>, closed |-> FALSE])]

\* the segments (from-point, to-point) of one subpath
SubpathSegments(sp) ==
    [i \in 1..(Len(sp.pts) - 1) |-> <<sp.pts[i], sp.pts[i + 1]>>]
    \o (IF sp.closed /\ Len(sp.pts) > 1
        THEN << <<sp.pts[Len(sp.pts)], sp.pts[1]>> >>
        ELSE <<>>)

RECURSIVE PathSegments(_)
PathSegments(path) ==
    IF path = <<>>
    THEN <<>>
    ELSE SubpathSegments(Head(path)) \o PathSegments(Tail(path))

\* stroke() draws every segment of the current path
ctxStroke(g) == [g EXCEPT !.raster = @ \o PathSegments(g.path)]

(***************************************************************************)
(* Input events.  A mouse event carries clientX/clientY, a touch event     *)
(* carries them in its first touch point.                                  *)
(***************************************************************************)
rect == [left |-> 8, top |-> 8]

ClientXs == rect.left .. (rect.left + MaxX)
ClientYs == rect.top .. (rect.top + MaxY)

MouseEvent(cx, cy) == [clientX |-> cx, clientY |-> cy]
TouchEvent(cx, cy) == [touches |-> <<[clientX |-> cx, clientY |-> cy]>>]

DownTypes == {"mousedown", "touchstart"}
MoveTypes == {"mousemove", "touchmove"}
UpTypes == {"mouseup", "mouseout", "touchend"}
CancelTypes == {"touchcancel"}
EventTypes == DownTypes \cup MoveTypes \cup UpTypes \cup CancelTypes
TouchTypes == {"touchstart", "touchmove", "touchend", "touchcancel"}

EventOf(type, cx, cy) ==
    IF type \in TouchTypes THEN TouchEvent(cx, cy) ELSE MouseEvent(cx, cy)

clientX(event) ==
    IF "touches" \in DOMAIN event THEN event.touches[1].clientX ELSE event.clientX

clientY(event) ==
    IF "touches" \in DOMAIN event THEN event.touches[1].clientY ELSE event.clientY

DrawingAction(type, x, y) == [type |-> type, x |-> x, y |-> y]

(***************************************************************************)
(* The handlers, as functions of the component's fields                    *)
(* c = [canvas, ctx, drawing, drawingActions, capture], where capture is   *)
(* the state of the capture canvas's 2D context.                           *)
(***************************************************************************)
startDrawing(c, event) ==
    IF c.canvas = Null
    THEN c
    ELSE LET x == clientX(event) - rect.left
             y == clientY(event) - rect.top
             c1 == [c EXCEPT !.drawing = TRUE,
                             !.drawingActions = Append(@, DrawingAction("moveTo", x, y))]
         IN IF c1.ctx # Null
            THEN [c1 EXCEPT !.capture = ctxMoveTo(@, x, y)]
            ELSE c1

\* draw with the context missing from its guard
drawWithoutContextGuard(c, event) ==
    IF ~c.drawing \/ c.canvas = Null
    THEN c
    ELSE LET x == clientX(event) - rect.left
             y == clientY(event) - rect.top
         IN [c EXCEPT !.drawingActions = Append(@, DrawingAction("lineTo", x, y)),
                      !.capture = ctxStroke(ctxLineTo(@, x, y))]

draw(c, event) ==
    IF ~c.drawing \/ c.canvas = Null \/ c.ctx = Null
    THEN c
    ELSE LET x == clientX(event) - rect.left
             y == clientY(event) - rect.top
         IN [c EXCEPT !.drawingActions = Append(@, DrawingAction("lineTo", x, y)),
                      !.capture = ctxStroke(ctxLineTo(@, x, y))]

\* endDrawing that leaves the drawing flag as it is
endDrawingKeepingFlag(c, event) == c

endDrawing(c, event) ==
    IF ~c.drawing
    THEN c
    ELSE [c EXCEPT !.drawing = FALSE]

Handlers == {"startDrawing", "draw", "endDrawing"}

Call(handler, c, event) ==
    CASE handler = "startDrawing" -> startDrawing(c, event)
      [] handler = "draw" -> draw(c, event)
      [] handler = "endDrawing" -> endDrawing(c, event)

(***************************************************************************)
(* renderSketch: replay of an action log onto a gallery canvas.  A canvas  *)
(* node is [supports2d, context]: getContext('2d') returns its context,    *)
(* or null when the canvas has no 2D rendering.                            *)
(***************************************************************************)
NewCanvas == [supports2d |-> TRUE, context |-> NewContext]

RECURSIVE renderActions(_, _)
renderActions(context, actions) ==
    IF actions = <<>>
    THEN context
    ELSE LET action == Head(actions)
             next == IF action.type = "moveTo"
                     THEN ctxMoveTo(context, action.x, action.y)
                     ELSE IF action.type = "lineTo"
                          THEN ctxStroke(ctxLineTo(context, action.x, action.y))
                          ELSE context
         IN renderActions(next, Tail(actions))

\* renderSketch without context.beginPath()
renderSketchKeepingPath(node, actions) ==
    IF ~node.supports2d
    THEN node
    ELSE LET context == [ctxClearRect(node.context)
                            EXCEPT !.strokeStyle = "black", !.lineWidth = 2]
         IN [node EXCEPT !.context = ctxClosePath(renderActions(context, actions))]

renderSketch(node, actions) ==
    IF ~node.supports2d
    THEN node
    ELSE LET context == [ctxBeginPath(ctxClearRect(node.context))
                            EXCEPT !.strokeStyle = "black", !.lineWidth = 2]
         IN [node EXCEPT !.context = ctxClosePath(renderActions(context, actions))]

\* the segments on a canvas after renderSketch
Replayed(node, actions) == renderSketch(node, actions).context.raster

(***************************************************************************)
(* State.  Every field of a component instance is a function of the        *)
(* session; writes and store are shared by all sessions.                   *)
(***************************************************************************)
VARIABLES
    life,             \* lifecycle position: "created", "mounted", "destroyed"
    canvas,           \* the bound canvas element, or Null
    ctx,              \* its 2D rendering context, or Null
    drawing,          \* whether a gesture is in progress
    mounted,          \* set by onMount
    showNotification, \* the "Sketch saved" notification is visible
    sketches,         \* the gallery list
    drawingActions,   \* the in-memory action log
    listeners,        \* the canvas's event listener list: <<type, handler>>
    capture,          \* state of the capture canvas's 2D context
    pointer,          \* the gesture on the canvas: "none", "down", "up", "cancel"
    recorded,         \* number of records input events have appended to the log
    fetch,            \* the getDocs call of fetchSketches
    writes,           \* the addDoc calls, each with the state of its promise
    store             \* the documents of the 'sketches' collection

(***************************************************************************)
(* State of the posts page (routes/+page.svelte) and of the realtime       *)
(* database behind it.  A JavaScript value the page can hold is a record   *)
(* with its type; an object carries its properties as a function.          *)
(***************************************************************************)
JSNull == [type |-> "null"]
JSObject(properties) == [type |-> "object", value |-> properties]

\* a node of the database without children
NoChildren == [k \in {} |-> JSNull]

VARIABLES
    posts,       \* the children of the database's 'posts' node: key -> post
    page,        \* the page component: "none" before it exists, then "mounted"
    data,        \* the page's data prop
    loading,     \* the page's loading flag
    title,       \* the form's title field
    content,     \* the form's content field
    loadCall,    \* the calls of the load function and the last one's progress
    ops,         \* the push, remove and update calls, each with its promise state
    outbox,      \* requests of the database client on their way to the server
    inbox,       \* answers of the server on their way to the database client
    cache,       \* what the database client knows of the server's 'posts' node
    snapshots    \* number of snapshots delivered to the onValue callback

postVars == <<posts, page, data, loading, title, content, loadCall, ops, outbox,
              inbox, cache, snapshots>>

InitPosts ==
    /\ posts = NoChildren
    /\ page = "none"
    /\ data = JSObject(NoChildren)
    /\ loading = TRUE
    /\ title = ""
    /\ content = ""
    /\ loadCall = [state |-> "idle", calls |-> 0, val |-> JSNull, result |-> JSNull]
    /\ ops = <<>>
    /\ outbox = <<>>
    /\ inbox = <<>>
    /\ cache = [synced |-> FALSE, tree |-> NoChildren]
    /\ snapshots = 0

(***************************************************************************)
(* A canvas that renderSketch is applied to, for what a replay does to a   *)
(* surface that has been drawn on before.                                  *)
(***************************************************************************)
VARIABLES
    surface,     \* the canvas: whether it gives a 2D context, and that context
    replayed     \* the log of the replays last made in a row, and their number

replayVars == <<surface, replayed>>

InitReplay ==
    /\ surface = NewCanvas
    /\ replayed = [times |-> 0, log |-> <<>>]

compVars == <<life, canvas, ctx, drawing, mounted, showNotification, sketches,
              drawingActions, listeners, capture, pointer, recorded, fetch>>
vars == <<compVars, writes, store, postVars, replayVars>>

\* the fields of session s as one record
Comp(s) ==
    [canvas |-> canvas[s], ctx |-> ctx[s], drawing |-> drawing[s],
     mounted |-> mounted[s], showNotification |-> showNotification[s],
     sketches |-> sketches[s], drawingActions |-> drawingActions[s],
     listeners |-> listeners[s], capture |-> capture[s]]

\* session s takes the fields of record c
SetComp(s, c) ==
    /\ canvas' = [canvas EXCEPT ![s] = c.canvas]
    /\ ctx' = [ctx EXCEPT ![s] = c.ctx]
    /\ drawing' = [drawing EXCEPT ![s] = c.drawing]
    /\ mounted' = [mounted EXCEPT ![s] = c.mounted]
    /\ showNotification' = [showNotification EXCEPT ![s] = c.showNotification]
    /\ sketches' = [sketches EXCEPT ![s] = c.sketches]
    /\ drawingActions' = [drawingActions EXCEPT ![s] = c.drawingActions]
    /\ listeners' = [listeners EXCEPT ![s] = c.listeners]
    /\ capture' = [capture EXCEPT ![s] = c.capture]

Init ==
    /\ life = [s \in Sessions |-> "created"]
    /\ canvas = [s \in Sessions |-> Null]
    /\ ctx = [s \in Sessions |-> Null]
    /\ drawing = [s \in Sessions |-> FALSE]
    /\ mounted = [s \in Sessions |-> FALSE]
    /\ showNotification = [s \in Sessions |-> FALSE]
    /\ sketches = [s \in Sessions |-> <<>>]
    /\ drawingActions = [s \in Sessions |-> <<>>]
    /\ listeners = [s \in Sessions |-> <<>>]
    /\ capture = [s \in Sessions |-> NewContext]
    /\ pointer = [s \in Sessions |-> "none"]
    /\ recorded = [s \in Sessions |-> 0]
    /\ fetch = [s \in Sessions |-> [state |-> "idle", docs |-> <<>>]]
    /\ writes = {}
    /\ store = {}
    /\ InitPosts
    /\ InitReplay

(***************************************************************************)
(* The canvas's event listener list.                                       *)
(***************************************************************************)
Range(f) == {f[i] : i \in DOMAIN f}

\* addEventListener adding the listener whether or not it is in the list
addEventListenerAgain(list, type, handler) == Append(list, <<type, handler>>)

\* addEventListener adds nothing when the same listener is already in the list
addEventListener(list, type, handler) ==
    IF <<type, handler>> \in Range(list) THEN list ELSE Append(list, <<type, handler>>)

removeEventListener(list, type, handler) ==
    SelectSeq(list, LAMBDA l : l # <<type, handler>>)

\* an event of the given type runs the listeners registered for it, in order
RECURSIVE dispatchEvent(_, _, _, _)
dispatchEvent(c, list, type, event) ==
    IF list = <<>>
    THEN c
    ELSE LET l == Head(list)
             c1 == IF l[1] = type THEN Call(l[2], c, event) ELSE c
         IN dispatchEvent(c1, Tail(list), type, event)

(***************************************************************************)
(* Lifecycle hooks.                                                        *)
(***************************************************************************)
\* what canvas.getContext('2d') can return: the context the canvas already
\* has, or, while it has none, a new context or null
getContext(c) == IF c.ctx # Null THEN {c.ctx} ELSE {Null, "ctx2d"}

\* afterUpdate, with got the value getContext returns to it
afterUpdate(c, got) ==
    IF c.mounted /\ c.canvas # Null
    THEN LET c1 == [c EXCEPT !.ctx = got]
         IN IF c1.ctx = Null
            THEN c1
            ELSE LET l1 == addEventListener(c1.listeners, "mousedown", "startDrawing")
                     l2 == addEventListener(l1, "touchstart", "startDrawing")
                     l3 == addEventListener(l2, "mousemove", "draw")
                     l4 == addEventListener(l3, "touchmove", "draw")
                     l5 == addEventListener(l4, "mouseup", "endDrawing")
                     l6 == addEventListener(l5, "mouseout", "endDrawing")
                     l7 == addEventListener(l6, "touchend", "endDrawing")
                 IN [c1 EXCEPT !.listeners = l7]
    ELSE c

\* onDestroy without the removal of the mouseup listener
onDestroyKeepingMouseup(c) ==
    IF c.canvas # Null
    THEN LET l1 == removeEventListener(c.listeners, "mousedown", "startDrawing")
             l2 == removeEventListener(l1, "mousemove", "draw")
             l4 == removeEventListener(l2, "mouseout", "endDrawing")
             l5 == removeEventListener(l4, "touchstart", "startDrawing")
             l6 == removeEventListener(l5, "touchmove", "draw")
             l7 == removeEventListener(l6, "touchend", "endDrawing")
         IN [c EXCEPT !.listeners = l7]
    ELSE c

onDestroy(c) ==
    IF c.canvas # Null
    THEN LET l1 == removeEventListener(c.listeners, "mousedown", "startDrawing")
             l2 == removeEventListener(l1, "mousemove", "draw")
             l3 == removeEventListener(l2, "mouseup", "endDrawing")
             l4 == removeEventListener(l3, "mouseout", "endDrawing")
             l5 == removeEventListener(l4, "touchstart", "startDrawing")
             l6 == removeEventListener(l5, "touchmove", "draw")
             l7 == removeEventListener(l6, "touchend", "endDrawing")
         IN [c EXCEPT !.listeners = l7]
    ELSE c

\* the update cycle that follows a change of the component's reactive state
\* runs afterUpdate, as long as the component is alive
Updated(s, c) ==
    IF life[s] = "mounted"
    THEN \E got \in getContext(c) : SetComp(s, afterUpdate(c, got))
    ELSE SetComp(s, c)

\* the component is mounted: the canvas is bound, onMount calls fetchSketches
\* (not awaited) and sets mounted, then the first afterUpdate runs
Mount(s) ==
    /\ life[s] = "created"
    /\ life' = [life EXCEPT ![s] = "mounted"]
    /\ fetch' = [fetch EXCEPT ![s] = [state |-> "requested", docs |-> <<>>]]
    /\ LET c == [Comp(s) EXCEPT !.canvas = "canvas", !.mounted = TRUE]
       IN \E got \in getContext(c) : SetComp(s, afterUpdate(c, got))
    /\ UNCHANGED <<pointer, recorded, writes, store, postVars, replayVars>>

\* the component is destroyed: onDestroy runs, then the canvas binding is released
Destroy(s) ==
    /\ life[s] = "mounted"
    /\ life' = [life EXCEPT ![s] = "destroyed"]
    /\ SetComp(s, [onDestroy(Comp(s)) EXCEPT !.canvas = Null])
    /\ UNCHANGED <<pointer, recorded, fetch, writes, store, postVars, replayVars>>

(***************************************************************************)
(* fetchSketches: getDocs on the 'sketches' collection.                    *)
(***************************************************************************)
\* the documents of a collection in document-id order
RECURSIVE DocsInOrder(_)
DocsInOrder(docs) ==
    IF docs = {}
    THEN <<>>
    ELSE LET first == CHOOSE d \in docs : \A e \in docs : d.id <= e.id
         IN <<first>> \o DocsInOrder(docs \ {first})

\* the store answers the query with its documents at that moment
GetDocsRead(s) ==
    /\ fetch[s].state = "requested"
    /\ fetch' = [fetch EXCEPT ![s] = [state |-> "responded", docs |-> DocsInOrder(store)]]
    /\ UNCHANGED <<life, canvas, ctx, drawing, mounted, showNotification, sketches,
                   drawingActions, listeners, capture, pointer, recorded, writes, store, postVars, replayVars>>

\* the query fails: fetchSketches rejects, nobody handles it
GetDocsReject(s) ==
    /\ fetch[s].state = "requested"
    /\ fetch' = [fetch EXCEPT ![s] = [state |-> "failed", docs |-> <<>>]]
    /\ UNCHANGED <<life, canvas, ctx, drawing, mounted, showNotification, sketches,
                   drawingActions, listeners, capture, pointer, recorded, writes, store, postVars, replayVars>>

\* fetchSketches adding the fetched logs to the gallery list it finds
fetchSketchesAppending(c, sketchDocs) ==
    [c EXCEPT !.sketches = @ \o [i \in DOMAIN sketchDocs |-> sketchDocs[i].data.drawingActions]]

\* fetchSketches after its await: the gallery list becomes the fetched logs
fetchSketches(c, sketchDocs) ==
    [c EXCEPT !.sketches = [i \in DOMAIN sketchDocs |-> sketchDocs[i].data.drawingActions]]

FetchDone(s) ==
    /\ fetch[s].state = "responded"
    /\ fetch' = [fetch EXCEPT ![s] = [state |-> "done", docs |-> <<>>]]
    /\ Updated(s, fetchSketches(Comp(s), fetch[s].docs))
    /\ UNCHANGED <<life, pointer, recorded, writes, store, postVars, replayVars>>

(***************************************************************************)
(* Input events on the capture canvas.                                     *)
(***************************************************************************)
\* the gesture as the input sequence defines it: a down event starts one,
\* an up, up-out or cancel event ends the one in progress
RECURSIVE Sum(_, _)
Sum(f, S) ==
    IF S = {} THEN 0 ELSE LET x == CHOOSE x \in S : TRUE IN f[x] + Sum(f, S \ {x})

PointerAfter(type, was) ==
    IF type \in DownTypes THEN "down"
    ELSE IF type \in UpTypes /\ was = "down" THEN "up"
    ELSE IF type \in CancelTypes /\ was = "down" THEN "cancel"
    ELSE was

Input(s, type, cx, cy, maxRecorded) ==
    /\ life[s] # "created"
    /\ type \in DownTypes \cup MoveTypes => Sum(recorded, Sessions) < maxRecorded
    /\ LET c == dispatchEvent(Comp(s), listeners[s], type, EventOf(type, cx, cy))
       IN /\ SetComp(s, c)
          /\ recorded' = [recorded EXCEPT
                             ![s] = @ + Len(c.drawingActions) - Len(drawingActions[s])]
    /\ pointer' = [pointer EXCEPT ![s] = PointerAfter(type, @)]
    /\ UNCHANGED <<life, fetch, writes, store, postVars, replayVars>>

(***************************************************************************)
(* saveSketch: up to the await of addDoc, the store's handling of the      *)
(* write, and the rest of saveSketch once the promise is settled.          *)
(***************************************************************************)
\* ids that do not look at the documents already written
newDocIdsReused(ws, maxSaves) == 1..maxSaves

\* addDoc gives the new document an id no other document has
newDocIds(ws, maxSaves) == (1..maxSaves) \ {w.id : w \in ws}

\* a write to one fixed document instead of a new one
addDocToFixedId(ws, s, id, docData) ==
    ws \cup {[id |-> 1, session |-> s, data |-> docData, state |-> "sent"]}

\* addDoc serialises its data when it is called
addDoc(ws, s, id, docData) ==
    ws \cup {[id |-> id, session |-> s, data |-> docData, state |-> "sent"]}

\* saveSketch showing the notification before it awaits the write
saveSketchNotifyingAtOnce(s, maxSaves) ==
    /\ newDocIds(writes, maxSaves) # {}
    /\ IF canvas[s] = Null \/ ctx[s] = Null
       THEN UNCHANGED <<writes, showNotification>>
       ELSE /\ \E id \in newDocIds(writes, maxSaves) :
                   writes' = addDoc(writes, s, id, [drawingActions |-> drawingActions[s]])
            /\ showNotification' = [showNotification EXCEPT ![s] = TRUE]
    /\ UNCHANGED <<life, canvas, ctx, drawing, mounted, sketches, drawingActions,
                   listeners, capture, pointer, recorded, fetch, store, postVars,
                   replayVars>>

\* saveSketch up to its await
saveSketch(s, maxSaves) ==
    /\ newDocIds(writes, maxSaves) # {}
    /\ IF canvas[s] = Null \/ ctx[s] = Null
       THEN UNCHANGED writes
       ELSE \E id \in newDocIds(writes, maxSaves) :
                writes' = addDoc(writes, s, id, [drawingActions |-> drawingActions[s]])
    /\ UNCHANGED <<compVars, store, postVars, replayVars>>

\* a click on the Save Sketch button
SaveClick(s, maxSaves) ==
    /\ life[s] = "mounted"
    /\ saveSketch(s, maxSaves)

\* the store creates the document under its id and sends its acknowledgement
createDocument(docs, w) ==
    {d \in docs : d.id # w.id} \cup {[id |-> w.id, data |-> w.data]}

AddDocCommit(w) ==
    /\ w.state = "sent"
    /\ store' = createDocument(store, w)
    /\ writes' = (writes \ {w}) \cup {[w EXCEPT !.state = "committed"]}
    /\ UNCHANGED <<compVars, postVars, replayVars>>

\* the rest of saveSketch without ctx.beginPath()
saveSketchResumeKeepingPath(c) ==
    LET c1 == [c EXCEPT !.sketches = Append(@, c.drawingActions)]
    IN IF c1.ctx = Null \/ c1.canvas = Null
       THEN c1
       ELSE [c1 EXCEPT !.capture = ctxClearRect(@),
                       !.drawingActions = <<>>,
                       !.showNotification = TRUE]

\* the rest of saveSketch making the gallery list anew from the saved log
saveSketchResumeNewList(c) ==
    LET c1 == [c EXCEPT !.sketches = <<c.drawingActions>>]
    IN IF c1.ctx = Null \/ c1.canvas = Null
       THEN c1
       ELSE [c1 EXCEPT !.capture = ctxBeginPath(ctxClearRect(@)),
                       !.drawingActions = <<>>,
                       !.showNotification = TRUE]

\* saveSketch from line 162 on, after addDoc's promise is fulfilled
saveSketchResume(c) ==
    LET c1 == [c EXCEPT !.sketches = Append(@, c.drawingActions)]
    IN IF c1.ctx = Null \/ c1.canvas = Null
       THEN c1   \* ctx.clearRect(.., canvas.width, ..) throws a TypeError
       ELSE [c1 EXCEPT !.capture = ctxBeginPath(ctxClearRect(@)),
                       !.drawingActions = <<>>,
                       !.showNotification = TRUE]

SaveAcknowledged(w) ==
    /\ w.state = "committed"
    /\ writes' = (writes \ {w}) \cup {[w EXCEPT !.state = "fulfilled"]}
    /\ Updated(w.session, saveSketchResume(Comp(w.session)))
    /\ UNCHANGED <<life, pointer, recorded, fetch, store, postVars, replayVars>>

\* the rest of saveSketch running although the write was rejected
saveSketchRejectedGoingOn(c) == saveSketchResume(c)

\* the rest of saveSketch when addDoc's promise is rejected: nothing of it runs
saveSketchRejected(c) == c

SaveRejected(w) ==
    /\ w.state = "sent"
    /\ writes' = (writes \ {w}) \cup {[w EXCEPT !.state = "rejected"]}
    /\ SetComp(w.session, saveSketchRejected(Comp(w.session)))
    /\ UNCHANGED <<life, pointer, recorded, fetch, store, postVars, replayVars>>

\* the callback of setTimeout(.., 2000)
hideNotification(c) == [c EXCEPT !.showNotification = FALSE]

\* Every assignment of TRUE to showNotification starts a timer, so a timer is
\* pending whenever the notification shows; a timer that fires when it is
\* already hidden changes nothing.
Timeout(s) ==
    /\ showNotification[s]
    /\ Updated(s, hideNotification(Comp(s)))
    /\ UNCHANGED <<life, pointer, recorded, fetch, writes, store, postVars, replayVars>>

\* the steps of the store and of the promises it settles
StoreNext ==
    \/ \E w \in writes : AddDocCommit(w)
    \/ \E w \in writes : SaveAcknowledged(w)
    \/ \E w \in writes : SaveRejected(w)

\* the steps of the sessions in S, under the given bounds
NextWith(S, maxRecorded, maxSaves) ==
    \/ \E s \in S : Mount(s)
    \/ \E s \in S : Destroy(s)
    \/ \E s \in S : GetDocsRead(s)
    \/ \E s \in S : GetDocsReject(s)
    \/ \E s \in S : FetchDone(s)
    \/ \E s \in S, type \in EventTypes, cx \in ClientXs, cy \in ClientYs :
           Input(s, type, cx, cy, maxRecorded)
    \/ \E s \in S : SaveClick(s, maxSaves)
    \/ \E s \in S : Timeout(s)
    \/ StoreNext

(***************************************************************************)
(* Spec: one session.                                                      *)
(***************************************************************************)
Next == NextWith({"A"}, MaxRecorded, MaxSaves)

Spec == Init /\ [][Next]_vars

(***************************************************************************)
(* SpecSaves: one session that can save more than once.                    *)
(***************************************************************************)
NextSaves == NextWith({"A"}, SavesMaxRecorded, SavesMaxSaves)

SpecSaves == Init /\ [][NextSaves]_vars

(***************************************************************************)
(* SpecTwo: two sessions, from the state in which both are mounted and     *)
(* their mount-time fetch of the (empty) collection has completed.         *)
(***************************************************************************)
InitComp ==
    [canvas |-> Null, ctx |-> Null, drawing |-> FALSE, mounted |-> FALSE,
     showNotification |-> FALSE, sketches |-> <<>>, drawingActions |-> <<>>,
     listeners |-> <<>>, capture |-> NewContext]

MountedComp ==
    fetchSketches(afterUpdate([InitComp EXCEPT !.canvas = "canvas", !.mounted = TRUE],
                              "ctx2d"),
                  DocsInOrder({}))

InitTwo ==
    /\ life = [s \in Sessions |-> "mounted"]
    /\ canvas = [s \in Sessions |-> MountedComp.canvas]
    /\ ctx = [s \in Sessions |-> MountedComp.ctx]
    /\ drawing = [s \in Sessions |-> MountedComp.drawing]
    /\ mounted = [s \in Sessions |-> MountedComp.mounted]
    /\ showNotification = [s \in Sessions |-> MountedComp.showNotification]
    /\ sketches = [s \in Sessions |-> MountedComp.sketches]
    /\ drawingActions = [s \in Sessions |-> MountedComp.drawingActions]
    /\ listeners = [s \in Sessions |-> MountedComp.listeners]
    /\ capture = [s \in Sessions |-> MountedComp.capture]
    /\ pointer = [s \in Sessions |-> "none"]
    /\ recorded = [s \in Sessions |-> 0]
    /\ fetch = [s \in Sessions |-> [state |-> "done", docs |-> <<>>]]
    /\ writes = {}
    /\ store = {}
    /\ InitPosts
    /\ InitReplay

NextTwo ==
    \/ \E s \in Sessions : Destroy(s)
    \/ \E s \in Sessions, type \in EventTypes, cx \in ClientXs, cy \in ClientYs :
           Input(s, type, cx, cy, TwoMaxRecorded)
    \/ \E s \in Sessions : SaveClick(s, TwoMaxSaves)
    \/ \E s \in Sessions : Timeout(s)
    \/ StoreNext

SpecTwo == InitTwo /\ [][NextTwo]_vars

(***************************************************************************)
(* SpecCalls: one session whose handlers are called directly, whether or   *)
(* not a listener is registered or the button is on the page, so that      *)
(* every guard of a handler is reached.                                    *)
(***************************************************************************)
Invoke(s, handler, type, cx, cy, maxRecorded) ==
    /\ handler \in {"startDrawing", "draw"} => Sum(recorded, Sessions) < maxRecorded
    /\ LET c == Call(handler, Comp(s), EventOf(type, cx, cy))
       IN /\ SetComp(s, c)
          /\ recorded' = [recorded EXCEPT
                             ![s] = @ + Len(c.drawingActions) - Len(drawingActions[s])]
    /\ UNCHANGED <<life, pointer, fetch, writes, store, postVars, replayVars>>

NextCalls ==
    \/ Mount("A")
    \/ Destroy("A")
    \/ GetDocsRead("A")
    \/ GetDocsReject("A")
    \/ FetchDone("A")
    \/ \E handler \in Handlers, type \in EventTypes, cx \in ClientXs, cy \in ClientYs :
           Invoke("A", handler, type, cx, cy, CallsMaxRecorded)
    \/ saveSketch("A", CallsMaxSaves)
    \/ Timeout("A")
    \/ StoreNext

SpecCalls == Init /\ [][NextCalls]_vars

(***************************************************************************)
(* The posts page: the realtime database, its client, the load function    *)
(* and the page's operations.                                              *)
(***************************************************************************)
PostsMaxOps == 3
PostsMaxLoads == 2

PostKeys == {"k1", "k2"}

\* what is typed into the form's fields, and the titles a post is updated to
Titles == {"t1"}
Contents == {"c1"}
UpdatedTitles == {"t2"}

\* interface Post
Post == [title : Titles \cup UpdatedTitles, content : Contents]
UpdatedPosts == [title : UpdatedTitles, content : Contents]

\* remove() deletes the child; removing a child that is not there changes nothing
removeChild(tree, key) == [k \in DOMAIN tree \ {key} |-> tree[k]]

\* push() writes the value under its new key
setChild(tree, key, value) ==
    [k \in DOMAIN tree \cup {key} |-> IF k = key THEN value ELSE tree[k]]

\* update() writes the given properties of the child and keeps its others; a
\* child that is not there comes into being with the given properties
updateChild(tree, key, properties) ==
    LET old == IF key \in DOMAIN tree THEN tree[key] ELSE NoChildren
        new == [f \in DOMAIN old \cup DOMAIN properties |->
                   IF f \in DOMAIN properties THEN properties[f] ELSE old[f]]
    IN setChild(tree, key, new)

\* the effect of a write on the 'posts' node
applyOp(tree, op) ==
    IF op.kind = "push" THEN setChild(tree, op.key, op.value)
    ELSE IF op.kind = "remove" THEN removeChild(tree, op.key)
    ELSE updateChild(tree, op.key, op.value)

\* snapshot.val(): null for a node without children, else the node as an object
snapshotVal(tree) == IF DOMAIN tree = {} THEN JSNull ELSE JSObject(tree)

\* the client's view of 'posts': the server's node as it knows it, with its
\* own writes that the server has not answered yet applied in call order
RECURSIVE applyPending(_, _, _)
applyPending(tree, calls, i) ==
    IF i > Len(calls)
    THEN tree
    ELSE applyPending(IF calls[i].state = "sent" THEN applyOp(tree, calls[i]) ELSE tree,
                      calls, i + 1)

View(known, calls) == applyPending(known.tree, calls, 1)

\* the callback given to onValue
onValueCallback(val) ==
    /\ data' = val
    /\ loading' = FALSE
    /\ snapshots' = snapshots + 1

\* the client raises a value event when the node it listens to is known in
\* full and its view of the node has changed
raiseValueEvent(known, calls, known1, calls1) ==
    IF known1.synced /\ (~known.synced \/ View(known1, calls1) # View(known, calls))
    THEN onValueCallback(snapshotVal(View(known1, calls1)))
    ELSE UNCHANGED <<data, loading, snapshots>>

\* load returning whatever it read, without the test of line 71
loadWithoutTest(val) == JSObject([data |-> val])

\* the load function: what it returns for the value of its snapshot
load(val) ==
    IF val.type # "null"
    THEN JSObject([data |-> val])
    ELSE JSObject([status |-> 500, error |-> "Error: Could not load data"])

\* load is called and awaits get()
LoadCall ==
    /\ loadCall.state \in {"idle", "returned"}
    /\ loadCall.calls < PostsMaxLoads
    /\ loadCall' = [loadCall EXCEPT !.state = "requested", !.calls = @ + 1]
    /\ UNCHANGED <<compVars, writes, store, replayVars, posts, page, data, loading, title, content,
                   ops, outbox, inbox, cache, snapshots>>

\* the server answers get() with the node at that moment
LoadRead ==
    /\ loadCall.state = "requested"
    /\ loadCall' = [loadCall EXCEPT !.state = "read", !.val = snapshotVal(posts)]
    /\ UNCHANGED <<compVars, writes, store, replayVars, posts, page, data, loading, title, content,
                   ops, outbox, inbox, cache, snapshots>>

\* load returns; the first return creates the page with the result as its
\* data prop, and the page's onMount subscribes to 'posts'
LoadReturn ==
    /\ loadCall.state = "read"
    /\ loadCall' = [loadCall EXCEPT !.state = "returned", !.result = load(loadCall.val)]
    /\ IF page = "none"
       THEN /\ page' = "mounted"
            /\ data' = load(loadCall.val)
            /\ outbox' = Append(outbox, [req |-> "listen", op |-> 0])
       ELSE UNCHANGED <<page, data, outbox>>
    /\ UNCHANGED <<compVars, writes, store, replayVars, posts, loading, title, content, ops, inbox,
                   cache, snapshots>>

\* bind:value of the form's fields
SetTitle(text) ==
    /\ page = "mounted"
    /\ title' = text
    /\ UNCHANGED <<compVars, writes, store, replayVars, posts, page, data, loading, content,
                   loadCall, ops, outbox, inbox, cache, snapshots>>

SetContent(text) ==
    /\ page = "mounted"
    /\ content' = text
    /\ UNCHANGED <<compVars, writes, store, replayVars, posts, page, data, loading, title,
                   loadCall, ops, outbox, inbox, cache, snapshots>>

\* a write call of the page: the client applies it to its view at once, raises
\* the value event that follows from it, and sends it to the server
write(kind, key, value) ==
    /\ page = "mounted"
    /\ Len(ops) < PostsMaxOps
    /\ LET op == [kind |-> kind, key |-> key, value |-> value, state |-> "sent"]
       IN /\ ops' = Append(ops, op)
          /\ outbox' = Append(outbox, [req |-> "write", op |-> Len(ops) + 1])
          /\ raiseValueEvent(cache, ops, cache, Append(ops, op))
    /\ UNCHANGED <<compVars, writes, store, replayVars, posts, page, title, content, loadCall,
                   inbox, cache>>

\* push() gives the new child a key made from the time of the call and random
\* bits: no child has had it, and no earlier call can have named it
newPostKeys(calls) == PostKeys \ {calls[i].key : i \in DOMAIN calls}

\* the form is submitted (both fields are required)
createPost ==
    /\ title # ""
    /\ content # ""
    /\ \E key \in newPostKeys(ops) :
           write("push", key, [title |-> title, content |-> content])

deletePost(key) == write("remove", key, NoChildren)

updatePost(key, updatedPost) == write("update", key, updatedPost)

\* the server takes the next request: it answers a listen with the node
ServerListen ==
    /\ outbox # <<>>
    /\ Head(outbox).req = "listen"
    /\ outbox' = Tail(outbox)
    /\ inbox' = Append(inbox, [msg |-> "data", op |-> 0, tree |-> posts])
    /\ UNCHANGED <<compVars, writes, store, replayVars, posts, page, data, loading, title, content,
                   loadCall, ops, cache, snapshots>>

\* it applies a write to the node and acknowledges it
ServerWrite ==
    /\ outbox # <<>>
    /\ Head(outbox).req = "write"
    /\ outbox' = Tail(outbox)
    /\ posts' = applyOp(posts, ops[Head(outbox).op])
    /\ inbox' = Append(inbox, [msg |-> "ack", op |-> Head(outbox).op, tree |-> NoChildren])
    /\ UNCHANGED <<compVars, writes, store, replayVars, page, data, loading, title, content,
                   loadCall, ops, cache, snapshots>>

\* or it refuses the write
ServerRefuse ==
    /\ outbox # <<>>
    /\ Head(outbox).req = "write"
    /\ outbox' = Tail(outbox)
    /\ inbox' = Append(inbox, [msg |-> "refused", op |-> Head(outbox).op, tree |-> NoChildren])
    /\ UNCHANGED <<compVars, writes, store, replayVars, posts, page, data, loading, title, content,
                   loadCall, ops, cache, snapshots>>

\* the client takes the server's next answer: the node it listens to, the
\* acknowledgement of a write (its promise is fulfilled) or the refusal of one
\* (its promise is rejected and the write leaves the view)
Receive ==
    /\ inbox # <<>>
    /\ inbox' = Tail(inbox)
    /\ LET m == Head(inbox)
       IN IF m.msg = "data"
          THEN /\ cache' = [synced |-> TRUE, tree |-> m.tree]
               /\ ops' = ops
               /\ raiseValueEvent(cache, ops, [synced |-> TRUE, tree |-> m.tree], ops)
          ELSE LET state1 == IF m.msg = "ack" THEN "fulfilled" ELSE "rejected"
                   ops1 == [ops EXCEPT ![m.op].state = state1]
                   cache1 == IF m.msg = "ack"
                             THEN [cache EXCEPT !.tree = applyOp(@, ops[m.op])]
                             ELSE cache
               IN /\ cache' = cache1
                  /\ ops' = ops1
                  /\ raiseValueEvent(cache, ops, cache1, ops1)
    /\ UNCHANGED <<compVars, writes, store, replayVars, posts, page, title, content, loadCall, outbox>>

NextPosts ==
    \/ LoadCall
    \/ LoadRead
    \/ LoadReturn
    \/ \E text \in Titles \cup {""} : SetTitle(text)
    \/ \E text \in Contents \cup {""} : SetContent(text)
    \/ createPost
    \/ \E key \in PostKeys : deletePost(key)
    \/ \E key \in PostKeys, updatedPost \in UpdatedPosts : updatePost(key, updatedPost)
    \/ ServerListen
    \/ ServerWrite
    \/ ServerRefuse
    \/ Receive

SpecPosts == Init /\ [][NextPosts]_vars

(***************************************************************************)
(* SpecReplay: renderSketch applied to a canvas, once or several times in  *)
(* a row, whatever has been drawn on the canvas before.                    *)
(***************************************************************************)
\* length of the logs replayed
MaxLogLen == 3
\* number of replays of one log made in a row
MaxReplays == 2
\* subpaths and segments drawn on the canvas by other means than a replay
MaxSurfacePath == 2
MaxSurfaceRaster == 2

\* the action logs of up to n records
RECURSIVE LogsUpTo(_)
LogsUpTo(n) ==
    IF n = 0
    THEN {<<>>}
    ELSE LET shorter == LogsUpTo(n - 1)
         IN shorter \cup
            {Append(log, DrawingAction(type, x, y)) :
                 log \in {l \in shorter : Len(l) = n - 1},
                 type \in {"moveTo", "lineTo"}, x \in 0..MaxX, y \in 0..MaxY}

\* a canvas element is created, with or without 2D rendering
NewSurface(supports2d) ==
    /\ surface' = [supports2d |-> supports2d, context |-> NewContext]
    /\ replayed' = [times |-> 0, log |-> <<>>]
    /\ UNCHANGED <<compVars, writes, store, postVars>>

\* something else than a replay draws on the canvas
SurfaceMoveTo(x, y) ==
    /\ surface.supports2d
    /\ Len(surface.context.path) < MaxSurfacePath
    /\ surface' = [surface EXCEPT !.context = ctxMoveTo(@, x, y)]
    /\ replayed' = [times |-> 0, log |-> <<>>]
    /\ UNCHANGED <<compVars, writes, store, postVars>>

SurfaceLineTo(x, y) ==
    /\ surface.supports2d
    /\ Len(surface.context.raster) < MaxSurfaceRaster
    /\ surface' = [surface EXCEPT !.context = ctxStroke(ctxLineTo(@, x, y))]
    /\ replayed' = [times |-> 0, log |-> <<>>]
    /\ UNCHANGED <<compVars, writes, store, postVars>>

SurfaceClosePath ==
    /\ surface.supports2d
    /\ surface.context.path # <<>>
    /\ Len(surface.context.path) < MaxSurfacePath
    /\ surface' = [surface EXCEPT !.context = ctxClosePath(@)]
    /\ replayed' = [times |-> 0, log |-> <<>>]
    /\ UNCHANGED <<compVars, writes, store, postVars>>

\* renderSketch is applied to the canvas with the given log
Replay(log) ==
    /\ replayed.times > 0 /\ replayed.log = log => replayed.times < MaxReplays
    /\ surface' = renderSketch(surface, log)
    /\ replayed' = [times |-> IF replayed.times > 0 /\ replayed.log = log
                              THEN replayed.times + 1
                              ELSE 1,
                    log |-> log]
    /\ UNCHANGED <<compVars, writes, store, postVars>>

NextReplay ==
    \/ \E supports2d \in BOOLEAN : NewSurface(supports2d)
    \/ \E x \in 0..MaxX, y \in 0..MaxY : SurfaceMoveTo(x, y)
    \/ \E x \in 0..MaxX, y \in 0..MaxY : SurfaceLineTo(x, y)
    \/ SurfaceClosePath
    \/ \E log \in LogsUpTo(MaxLogLen) : Replay(log)

SpecReplay == Init /\ [][NextReplay]_vars

(***************************************************************************)
(* Properties.                                                             *)
(***************************************************************************)
\* the write w changes its promise state from `from` to `to` in this step
Settles(w, from, to) ==
    /\ w \in writes
    /\ w.state = from
    /\ [w EXCEPT !.state = to] \in writes'

DocsOf(id, docs) == {d \in docs : d.id = id}

LogStartsWithMoveTo ==
    \A s \in Sessions :
        drawingActions[s] # <<>> => drawingActions[s][1].type = "moveTo"

\* a move event appends one lineTo at its position when a gesture is active
\* and nothing otherwise
MoveAppendsOneLineToIffDrawing ==
    \A s \in Sessions, type \in MoveTypes, cx \in ClientXs, cy \in ClientYs :
        Input(s, type, cx, cy, MaxRecorded) =>
            drawingActions'[s] =
                IF drawing[s]
                THEN Append(drawingActions[s],
                            DrawingAction("lineTo", cx - rect.left, cy - rect.top))
                ELSE drawingActions[s]

\* C1: under any interleaving of down, move and up events with saveSketch
\* calls and their acknowledgements, a non-empty action log starts with a
\* moveTo record, and every move event appends exactly one lineTo record when
\* a gesture is active (drawing) and none when no gesture is active.
C1_ActionLogShape ==
    [](LogStartsWithMoveTo) /\ [][MoveAppendsOneLineToIffDrawing]_vars

\* C2: replaying the action log with renderSketch onto a fresh surface gives
\* the same sequence of segments as startDrawing/draw have drawn on the
\* capture canvas since it was last cleared.
C2_ReplayEqualsLive ==
    \A s \in Sessions :
        Replayed(NewCanvas, drawingActions[s]) = capture[s].raster

\* a log of three records whose replay draws two different segments
C2_Witness ==
    \E s \in Sessions :
        /\ Len(drawingActions[s]) = 3
        /\ Len(capture[s].raster) = 3
        /\ capture[s].raster[1] # capture[s].raster[3]

C3_Step ==
    \* a new write is issued by a session with canvas and context, holds the
    \* session's log of that moment, and is alone
    /\ \A w \in writes' :
           w.id \notin {v.id : v \in writes} =>
               /\ canvas[w.session] # Null /\ ctx[w.session] # Null
               /\ w.data = [drawingActions |-> drawingActions[w.session]]
               /\ writes' = writes \cup {w}
    \* the store creates exactly the document of the write it accepts
    /\ \A w \in writes :
           Settles(w, "sent", "committed") =>
               /\ DocsOf(w.id, store) = {}
               /\ store' = store \cup {[id |-> w.id, data |-> w.data]}
    \* and no step changes or removes a stored document
    /\ store \subseteq store'
    /\ Cardinality(store' \ store) <= 1
    /\ \A d \in store' \ store : \E w \in writes : Settles(w, "sent", "committed")

\* C3: a saveSketch call made with canvas and context present issues one
\* write holding the action log of the moment of the call; the store adds
\* exactly one document with that log for it, and every document stored
\* before stays as it was.
C3_SaveAddsOneDocument == [][C3_Step]_vars

\* two documents with different logs are stored, the second added to the first
C3_Witness ==
    \E d, e \in store :
        /\ d.id # e.id
        /\ d.data # e.data
        /\ d.data.drawingActions # <<>>
        /\ \A w \in writes : w.state = "fulfilled"

C4_Step ==
    \A s \in Sessions :
        /\ (fetch[s].state = "requested" /\ fetch'[s].state = "responded") =>
               \A w \in writes :
                   w.state = "fulfilled" =>
                       \E i \in DOMAIN fetch'[s].docs : fetch'[s].docs[i].data = w.data
        /\ (fetch[s].state = "responded" /\ fetch'[s].state = "done") =>
               /\ Len(sketches'[s]) = Len(fetch[s].docs)
               /\ \A i \in DOMAIN fetch[s].docs :
                      sketches'[s][i] = fetch[s].docs[i].data.drawingActions

\* C4: once a saveSketch write is acknowledged, every getDocs answered from
\* then on contains the saved action log, at whatever position, and
\* fetchSketches hands exactly the fetched logs to the gallery.
C4_SavedLogIsLoaded == [][C4_Step]_vars

\* a fetch answered after the acknowledgement of a non-empty saved log
C4_Witness ==
    \E s \in Sessions, w \in writes :
        /\ w.state = "fulfilled"
        /\ w.data.drawingActions # <<>>
        /\ fetch[s].state = "responded"
        /\ \E i \in DOMAIN fetch[s].docs : fetch[s].docs[i].data = w.data

\* C5: after an up, up-out or cancel event no record is appended to the
\* action log until the next down event.
C5_NoAppendAfterGestureEnd ==
    [][\A s \in Sessions :
           (pointer[s] \in {"up", "cancel"} /\ pointer'[s] # "down") =>
               Len(drawingActions'[s]) <= Len(drawingActions[s])]_vars

C6_Step ==
    /\ \A w \in writes :
           Settles(w, "sent", "rejected") =>
               /\ drawingActions'[w.session] = drawingActions[w.session]
               /\ sketches'[w.session] = sketches[w.session]
               /\ capture'[w.session] = capture[w.session]
               /\ showNotification'[w.session] = showNotification[w.session]
               /\ store' = store
               /\ {v.id : v \in writes'} = {v.id : v \in writes}
    \* a rejected write stays rejected and is never stored
    /\ \A w \in writes :
           w.state = "rejected" => w \in writes' /\ DocsOf(w.id, store') = {}

\* C6: when the store rejects the write of saveSketch, the call ends
\* rejected, no other write is issued for it, and the action log, the
\* gallery, the capture canvas and the notification stay as they were.
C6_RejectedSaveChangesNothing == [][C6_Step]_vars

\* a rejected save of a log with a drawn segment, log and canvas still there
C6_Witness ==
    \E w \in writes :
        /\ w.state = "rejected"
        /\ drawingActions[w.session] = w.data.drawingActions
        /\ capture[w.session].raster # <<>>
        /\ sketches[w.session] = <<>>
        /\ ~showNotification[w.session]

\* a direct call of startDrawing or draw, or of saveSketch, by session s
HandlerCall(s, handler) ==
    \E type \in EventTypes, cx \in ClientXs, cy \in ClientYs :
        Invoke(s, handler, type, cx, cy, CallsMaxRecorded)

NothingChanged(s) ==
    /\ drawingActions'[s] = drawingActions[s]
    /\ drawing'[s] = drawing[s]
    /\ sketches'[s] = sketches[s]
    /\ writes' = writes
    /\ store' = store

\* C7 as stated: with canvas or ctx null, startDrawing, draw and saveSketch
\* each return without changing the action log, the drawing flag, the
\* gallery or the store.
C7_NullShortCircuits ==
    [][\A s \in Sessions :
           (canvas[s] = Null \/ ctx[s] = Null) =>
               /\ HandlerCall(s, "startDrawing") => NothingChanged(s)
               /\ HandlerCall(s, "draw") => NothingChanged(s)
               /\ saveSketch(s, CallsMaxSaves) => NothingChanged(s)]_vars

\* what startDrawing does with a canvas but no context
StartsGesture(s) ==
    \E type \in EventTypes, cx \in ClientXs, cy \in ClientYs :
        /\ Invoke(s, "startDrawing", type, cx, cy, CallsMaxRecorded)
        /\ drawing'[s]
        /\ drawingActions'[s] =
               Append(drawingActions[s],
                      DrawingAction("moveTo", cx - rect.left, cy - rect.top))
        /\ capture'[s] = capture[s]
        /\ sketches'[s] = sketches[s]
        /\ writes' = writes
        /\ store' = store

\* C7 amended: with canvas null each of the three returns without changing
\* anything; with a canvas but ctx null, draw and saveSketch return without
\* changing anything, while startDrawing still sets drawing and appends its
\* moveTo record and only skips the call on the context.
C7_NullGuards ==
    [][\A s \in Sessions :
           /\ canvas[s] = Null =>
                  /\ HandlerCall(s, "startDrawing") => NothingChanged(s)
                  /\ HandlerCall(s, "draw") => NothingChanged(s)
                  /\ saveSketch(s, CallsMaxSaves) => NothingChanged(s)
           /\ (canvas[s] # Null /\ ctx[s] = Null) =>
                  /\ HandlerCall(s, "startDrawing") => StartsGesture(s)
                  /\ HandlerCall(s, "draw") => NothingChanged(s)
                  /\ saveSketch(s, CallsMaxSaves) => NothingChanged(s)]_vars

\* startDrawing has been called with a canvas and no context
C7_Witness ==
    \E s \in Sessions :
        /\ canvas[s] # Null
        /\ ctx[s] = Null
        /\ drawing[s]
        /\ Len(drawingActions[s]) = 1

\* C9: whatever the interleaving of the writes and acknowledgements of two
\* sessions, every accepted write has its own document in the store, with
\* the action log its session sent.
C9_BothRecordsPersist ==
    /\ \A w \in writes :
           w.state \in {"committed", "fulfilled"} =>
               DocsOf(w.id, store) = {[id |-> w.id, data |-> w.data]}
    /\ \A v, w \in writes : v.id = w.id => v = w

\* both sessions' saves are acknowledged and stored, with different logs
C9_Witness ==
    \E v, w \in writes :
        /\ v.session = "A" /\ w.session = "B"
        /\ v.state = "fulfilled" /\ w.state = "fulfilled"
        /\ v.data # w.data
        /\ Cardinality(store) = 2

\* C10: a saveSketch call made on an empty action log stores a document
\* with an empty log and appends an empty log to the gallery, and the replay
\* of that log draws no segment.
C10_EmptySketchSaves ==
    [][\A w \in writes :
           (w.data.drawingActions = <<>> /\ Settles(w, "committed", "fulfilled")) =>
               /\ DocsOf(w.id, store) = {[id |-> w.id, data |-> [drawingActions |-> <<>>]]}
               /\ sketches'[w.session] = Append(sketches[w.session], <<>>)
               /\ Replayed(NewCanvas, <<>>) = <<>>]_vars

\* the keys whose deletePost call has been acknowledged
AcknowledgedDeletes ==
    {ops[i].key : i \in {j \in DOMAIN ops : ops[j].kind = "remove" /\ ops[j].state = "fulfilled"}}

\* the value has no property of that key
Lacks(val, key) == val.type = "null" \/ key \notin DOMAIN val.value

\* the server applies the write call i in this step
ServerApplies(i) ==
    /\ outbox # <<>>
    /\ Head(outbox) = [req |-> "write", op |-> i]
    /\ Len(inbox') = Len(inbox) + 1
    /\ inbox'[Len(inbox')].msg = "ack"

(* C8: once deletePost(k) has been acknowledged, every snapshot delivered  *)
(* to the onValue callback afterwards and every value a one-shot load      *)
(* reads afterwards has no key k; and the deletion of k leaves every other *)
(* post on the server with its key, title and content.                     *)
C8_Step ==
    /\ snapshots' # snapshots => \A k \in AcknowledgedDeletes : Lacks(data', k)
    /\ loadCall.state = "requested" /\ loadCall'.state = "read" =>
           \A k \in AcknowledgedDeletes : Lacks(loadCall'.val, k)
    /\ \A i \in DOMAIN ops :
           ops[i].kind = "remove" /\ ServerApplies(i) =>
               \A k \in DOMAIN posts \ {ops[i].key} :
                   k \in DOMAIN posts' /\ posts'[k] = posts[k]

C8_DeletedPostStaysDeleted == [][C8_Step]_vars

\* the generic error object of load
IsErrorObject(v) ==
    /\ v.type = "object"
    /\ DOMAIN v.value = {"status", "error"}
    /\ v.value.status = 500

C11_Step ==
    \* the one-shot read yields the 'posts' node of that moment, null if it
    \* has no child
    /\ (loadCall.state = "requested" /\ loadCall'.state = "read") =>
           /\ loadCall'.val.type = "null" <=> DOMAIN posts = {}
           /\ loadCall'.val.type # "null" => loadCall'.val.value = posts
    \* load returns the error object exactly when the read yielded null, and
    \* else an object whose data is the value read
    /\ (loadCall.state = "read" /\ loadCall'.state = "returned") =>
           /\ IsErrorObject(loadCall'.result) <=> loadCall.val.type = "null"
           /\ loadCall.val.type # "null" =>
                  /\ DOMAIN loadCall'.result.value = {"data"}
                  /\ loadCall'.result.value.data = loadCall.val
    \* no step of load changes the store
    /\ loadCall' # loadCall => posts' = posts

\* C11: load returns the error object (status 500 with an error) exactly
\* when the one-shot read of 'posts' yields no data, otherwise it returns the
\* posts exactly as read, and it leaves the store as it is in both cases.
C11_LoadReturnsDataOrError == [][C11_Step]_vars

\* a second load has returned the posts it read, after the first one, made
\* before any post existed, returned the error object
C11_Witness ==
    /\ loadCall.calls = 2
    /\ loadCall.state = "returned"
    /\ ~IsErrorObject(loadCall.result)
    /\ loadCall.result.value.data.value = posts
    /\ DOMAIN posts # {}

\* the set of segments on the canvas
Segments(node) == {node.context.raster[i] : i \in DOMAIN node.context.raster}

\* C12: applying renderSketch with the same action log a second time in a
\* row leaves the canvas with the same set of segments as the first
\* application did, whatever the canvas held before the first one.
C12_ReplayIdempotent ==
    [][(replayed.times > 0 /\ replayed'.times = replayed.times + 1
            /\ replayed'.log = replayed.log) =>
           Segments(surface') = Segments(surface)]_vars

\* a log with two different segments has been replayed twice in a row
C12_Witness ==
    /\ replayed.times = 2
    /\ Cardinality(Segments(surface)) = 2
    /\ surface.context.raster = Replayed(NewCanvas, replayed.log)

IsPrefix(a, b) == Len(a) <= Len(b) /\ \A i \in DOMAIN a : b[i] = a[i]

\* C13: once an action log is an element of the gallery list, that element
\* keeps its contents through every input event, every clearing of the
\* in-memory log and every later save (the one step that makes the list anew
\* is the completion of fetchSketches).
C13_GalleryEntriesImmutable ==
    [][\A s \in Sessions :
           fetch'[s] = fetch[s] => IsPrefix(sketches[s], sketches'[s])]_vars

\* a saved log is in the gallery, the in-memory log has been cleared since
\* and a later save has been acknowledged
C13_Witness ==
    \E s \in Sessions :
        /\ Len(sketches[s]) = 2
        /\ sketches[s][1] # <<>>
        /\ sketches[s][2] = <<>>
        /\ drawingActions[s] = <<>>
        /\ \A w \in writes : w.state = "fulfilled"

\* C14: for every saveSketch call, the log appended to the gallery when its
\* write is acknowledged is the log the call wrote to the store, whatever
\* input events or other saves fall between the call and the acknowledgement.
C14_GalleryEntryIsWrittenLog ==
    [][\A w \in writes :
           Settles(w, "committed", "fulfilled") =>
               sketches'[w.session] =
                   Append(sketches[w.session], w.data.drawingActions)]_vars

\* the records of a log
Actions(log) == {log[i] : i \in DOMAIN log}

\* the records written to the store by the saves of session s
WrittenActions(s) ==
    UNION {Actions(w.data.drawingActions) :
               w \in {v \in writes : v.session = s /\ v.state # "rejected"}}

\* C15: whenever the acknowledgement of a save clears the in-memory log,
\* every record it removes is in a record written to the store, also those
\* appended by input events while the write was in flight.
C15_NoActionDiscardedUnsaved ==
    [][\A w \in writes :
           (Settles(w, "committed", "fulfilled") /\ drawingActions'[w.session] = <<>>) =>
               Actions(drawingActions[w.session]) \subseteq WrittenActions(w.session)]_vars

\* the saves of session s that have been acknowledged
Acknowledged(s) == {w \in writes : w.session = s /\ w.state = "fulfilled"}

\* C16: a sketch whose save has been acknowledged in this session stays in
\* the gallery list: no step, and in particular not the completion of the
\* mount-time fetchSketches, takes an entry that an acknowledgement has
\* appended out of the list.
C16_SavedSketchStaysInGallery ==
    [][\A s \in Sessions :
           Acknowledged(s) # {} =>
               \A i \in DOMAIN sketches[s] :
                   \E j \in DOMAIN sketches'[s] : sketches'[s][j] = sketches[s][i]]_vars

\* one of the local updates of saveSketch happens to session s in this step:
\* the gallery list changes other than by fetchSketches, the log loses
\* records, the capture canvas or its path is cleared, the notification shows
LocalUpdate(s) ==
    \/ sketches'[s] # sketches[s] /\ fetch'[s] = fetch[s]
    \/ Len(drawingActions'[s]) < Len(drawingActions[s])
    \/ capture'[s].raster = <<>> /\ capture[s].raster # <<>>
    \/ capture'[s].path = <<>> /\ capture[s].path # <<>>
    \/ showNotification'[s] /\ ~showNotification[s]

C17_Step ==
    \A s \in Sessions :
        \* a local update happens only in the step that fulfils a write of s
        /\ LocalUpdate(s) =>
               \E w \in writes : w.session = s /\ Settles(w, "committed", "fulfilled")
        \* and that step, with canvas and context still there, makes all of them
        /\ \A w \in writes :
               (/\ w.session = s
                /\ Settles(w, "committed", "fulfilled")
                /\ canvas[s] # Null
                /\ ctx[s] # Null) =>
                   /\ sketches'[s] = Append(sketches[s], drawingActions[s])
                   /\ capture'[s].raster = <<>>
                   /\ capture'[s].path = <<>>
                   /\ drawingActions'[s] = <<>>
                   /\ showNotification'[s]

\* C17: the gallery append, the clearing of the capture canvas, the clearing
\* of the action log and the showing of the notification all happen in the
\* step in which the store's acknowledgement fulfils the write, and none of
\* them happens in any other step, in particular not between the call and
\* the acknowledgement.
C17_SaveThenUpdate == [][C17_Step]_vars

\* an acknowledged save of a drawn sketch: gallery entry, cleared canvas and
\* log, notification showing
C17_Witness ==
    \E s \in Sessions, w \in writes :
        /\ w.session = s
        /\ w.state = "fulfilled"
        /\ Len(w.data.drawingActions) >= 2
        /\ sketches[s] = <<w.data.drawingActions>>
        /\ capture[s].raster = <<>>
        /\ drawingActions[s] = <<>>
        /\ showNotification[s]

\* the writes of session s that the store has not acknowledged or refused yet
Unacknowledged(s) ==
    {w \in writes : w.session = s /\ w.state \in {"sent", "committed"}}

\* C18: an action log is persisted at most once: a saveSketch call issued
\* while an earlier call of the session is still unacknowledged does not send
\* the store a second record holding the same recorded actions.
C18_LogPersistedAtMostOnce ==
    [][\A w2 \in writes' \ writes :
           w2.data.drawingActions # <<>> =>
               \A w1 \in Unacknowledged(w2.session) : w1.data # w2.data]_vars

\* Record<string, Post>: an object, possibly without properties, each of
\* whose properties is a post
IsPostRecord(val) ==
    /\ val.type = "object"
    /\ \A key \in DOMAIN val.value : val.value[key] \in Post

\* C19: whenever the page shows the list of posts (loading is false), its
\* data is a key-to-post record, possibly the empty one, so that
\* Object.entries(data) is defined; in particular after the last post has
\* been deleted.
C19_DataIsPostRecord ==
    (page = "mounted" /\ ~loading) => IsPostRecord(data)

\* a down event on the canvas of a component that has registered its handlers
\* and whose log is empty leaves the log with one moveTo at the event's
\* position and sets drawing
C20_Down ==
    \A s \in Sessions, type \in DownTypes, cx \in ClientXs, cy \in ClientYs :
        (/\ Input(s, type, cx, cy, MaxRecorded)
         /\ listeners[s] # <<>>
         /\ drawingActions[s] = <<>>) =>
            /\ drawingActions'[s] =
                   <<DrawingAction("moveTo", cx - rect.left, cy - rect.top)>>
            /\ drawing'[s]

\* an up event that follows the down event with the log still at that one
\* moveTo leaves the log as it is, resets drawing, and the log replays
\* without drawing a segment
C20_Up ==
    \A s \in Sessions, type \in UpTypes, cx \in ClientXs, cy \in ClientYs :
        (/\ Input(s, type, cx, cy, MaxRecorded)
         /\ listeners[s] # <<>>
         /\ pointer[s] = "down"
         /\ Len(drawingActions[s]) = 1
         /\ drawingActions[s][1].type = "moveTo") =>
            /\ drawingActions'[s] = drawingActions[s]
            /\ Len(drawingActions'[s]) = 1
            /\ ~drawing'[s]
            /\ Replayed(NewCanvas, drawingActions'[s]) = <<>>

\* C20: an empty gesture, a down event immediately followed by an up event,
\* handled by the component's listeners on an empty action log, yields a log
\* of exactly one element, a moveTo,
\* leaves drawing false, and that log replays through renderSketch without
\* drawing a segment.
C20_EmptyGesture == [][C20_Down /\ C20_Up]_vars

\* an empty gesture has been made on an empty log
C20_Witness ==
    \E s \in Sessions :
        /\ listeners[s] # <<>>
        /\ pointer[s] = "up"
        /\ recorded[s] = 1
        /\ Len(drawingActions[s]) = 1
        /\ drawingActions[s][1].type = "moveTo"
        /\ ~drawing[s]
        /\ Replayed(NewCanvas, drawingActions[s]) = <<>>

\* the event types afterUpdate registers a handler for
RegisteredTypes == DownTypes \cup MoveTypes \cup UpTypes

\* the handlers in the canvas's listener list for an event type
HandlersFor(s, type) == {i \in DOMAIN listeners[s] : listeners[s][i][1] = type}

\* every one of the seven event types has exactly one handler
OneHandlerEach(s) ==
    \A type \in RegisteredTypes : Cardinality(HandlersFor(s, type)) = 1

C21_Step ==
    \A s \in Sessions :
        \* after the step, a live component with a context has one handler for
        \* each type, however many update cycles have run
        /\ (life'[s] = "mounted" /\ ctx'[s] # Null) => OneHandlerEach(s)'
        \* a down event appends one record, a move event one during a gesture
        /\ \A type \in DownTypes \cup MoveTypes, cx \in ClientXs, cy \in ClientYs :
               (/\ Input(s, type, cx, cy, MaxRecorded)
                /\ listeners[s] # <<>>
                /\ type \in MoveTypes => drawing[s]) =>
                   Len(drawingActions'[s]) = Len(drawingActions[s]) + 1

\* C21: listener registration is idempotent across update cycles: after any
\* number of afterUpdate runs every one of the seven input event types has
\* exactly one handler on the capture canvas, so one down event, or one move
\* event during a gesture, appends exactly one record to the action log.
C21_RegistrationIdempotent == [][C21_Step]_vars

\* afterUpdate has run again after an acknowledged save, and an input event
\* has appended to the log since
C21_Witness ==
    \E s \in Sessions :
        /\ life[s] = "mounted"
        /\ \E w \in writes : w.session = s /\ w.state = "fulfilled"
        /\ sketches[s] # <<>>
        /\ OneHandlerEach(s)
        /\ drawingActions[s] # <<>>

\* a set as a list, in some order
RECURSIVE ListOf(_)
ListOf(S) ==
    IF S = {} THEN <<>> ELSE LET x == CHOOSE x \in S : TRUE IN <<x>> \o ListOf(S \ {x})

\* every (event type, handler) pair there is
AllPairs == EventTypes \X Handlers

\* the pairs afterUpdate registers on a canvas without listeners
RegisteredPairs ==
    Range(afterUpdate([InitComp EXCEPT !.canvas = "canvas", !.mounted = TRUE],
                      "ctx2d").listeners)

\* the pairs onDestroy removes from a canvas that has every pair registered
RemovedPairs ==
    AllPairs \ Range(onDestroy([InitComp EXCEPT !.canvas = "canvas", !.mounted = TRUE,
                                                !.listeners = ListOf(AllPairs)]).listeners)

C22_Step ==
    \A s \in Sessions :
        \* the step that destroys the component removes what was registered
        \* and leaves the canvas without listeners
        /\ (life[s] = "mounted" /\ life'[s] = "destroyed") =>
               /\ RemovedPairs = RegisteredPairs
               /\ Range(listeners[s]) \subseteq RemovedPairs
               /\ listeners'[s] = <<>>
        \* an input event on the canvas of a destroyed component changes
        \* neither the log nor the drawing flag
        /\ \A type \in EventTypes, cx \in ClientXs, cy \in ClientYs :
               (Input(s, type, cx, cy, MaxRecorded) /\ life[s] = "destroyed") =>
                   /\ drawingActions'[s] = drawingActions[s]
                   /\ drawing'[s] = drawing[s]

\* C22: teardown releases every registered input listener: the pairs of
\* event type and handler that onDestroy removes are the pairs afterUpdate
\* registers, so after the component is destroyed no input event on the
\* canvas changes the action log or the drawing flag.
C22_TeardownReleasesListeners == [][C22_Step]_vars

\* a component destroyed in the middle of a gesture, with its listeners
\* released and an up event on its canvas since
C22_Witness ==
    \E s \in Sessions :
        /\ life[s] = "destroyed"
        /\ ctx[s] # Null
        /\ listeners[s] = <<>>
        /\ drawing[s]
        /\ drawingActions[s] # <<>>
        /\ pointer[s] = "up"

====
